---- MODULE Spec2Model ----
(***************************************************************************)
(* Swedbank ISO 20022 pain.001.001.03 credit transfer generation:          *)
(* account.journal (agreement ID constraint, text sanitizers, payment      *)
(* validation, grouping, GrpHdr / PmtInf / CdtTrfTxInf assembly, message   *)
(* and block identifiers, schema validation) and res.partner.bank (account *)
(* classification, formatting, onchange and clearing member).              *)
(*                                                                         *)
(* Specifications: Spec (journal writes and generation), SpecBank (edits   *)
(* of a bank account), SpecText (the sanitizers), SpecValidated (schema    *)
(* validation) and SpecIds (identifiers of successive calls).              *)
(*                                                                         *)
(* Text values (agreement IDs, account numbers, clearing codes, formatted  *)
(* amounts) are sequences of one-character strings, so that the regular    *)
(* expressions, the replace / zfill / slice calls and the '%.2f' format of  *)
(* the source are computed character by character.  Monetary amounts are   *)
(* integers in hundredths (the amount field is rounded to the currency's   *)
(* two decimals by the host).                                              *)
(***************************************************************************)
EXTENDS Integers, Sequences, FiniteSets, TLC

VARIABLES
    swedbank_agreement_id,    \* account.journal field (<<>> when unset)
    bank_account_id,          \* account.journal debtor bank account (NoBankAccount when unset)
    swedbank_service_level,   \* account.journal selection ("" when unset)
    swedbank_charge_bearer,   \* account.journal selection ("" when unset)
    result,                   \* outcome of the call in progress, handed to the caller by Return
    acc_number,               \* res.partner.bank field
    acc_type,                 \* res.partner.bank field ("iban" or "bank")
    swedbank_clearing_code,   \* res.partner.bank field (<<>> when unset)
    swedbank_account_type,    \* res.partner.bank stored computed field ("" when False)
    clock,                    \* the last reading of datetime.now(), in microseconds
    issued                    \* the MsgId and PmtInfId texts of the documents returned so
                              \* far, each with the clock reading it was made from

journal_vars == <<swedbank_agreement_id, bank_account_id, swedbank_service_level,
                  swedbank_charge_bearer, result>>
bank_vars == <<acc_number, acc_type, swedbank_clearing_code, swedbank_account_type>>
id_vars == <<clock, issued>>
vars == <<swedbank_agreement_id, bank_account_id, swedbank_service_level,
          swedbank_charge_bearer, result,
          acc_number, acc_type, swedbank_clearing_code, swedbank_account_type,
          clock, issued>>

---------------------------------------------------------------------------
(* Bounds of the model *)

\* longest batch handed to create_swedbank_credit_transfer
MaxBatch == 3
\* longest run of digits in an account number written to a bank account
MaxDigits == 11
\* longest text handed to the sanitizers
MaxText == 4
\* largest of the short max_length arguments handed to the sanitizers
MaxLength == 5
\* largest number of errors the schema validation reports
MaxErrors == 12
\* last reading of the clock, in microseconds after the first one
MaxClock == 2
\* number of calls that return a document
MaxCalls == 2

---------------------------------------------------------------------------
(* Characters and regular expressions *)

DigitChars == {"0", "1", "2", "3", "4", "5", "6", "7", "8", "9"}
UpperChars == {"A", "B", "C", "D", "E", "F", "G", "H", "I", "J", "K", "L", "M",
               "N", "O", "P", "Q", "R", "S", "T", "U", "V", "W", "X", "Y", "Z"}

AllIn(s, chars) == \A i \in 1..Len(s) : s[i] \in chars

\* Python's '$' (no MULTILINE flag) matches at the end of the text and also just
\* before a newline that ends the text: the text the pattern body must match.
BeforeDollar(s) ==
    IF Len(s) > 0 /\ s[Len(s)] = "\n"
    THEN {s, SubSeq(s, 1, Len(s) - 1)}
    ELSE {s}

\* re.match(r'^[0-9]{lo,hi}$', s)
ReMatchDigits(s, lo, hi) ==
    \E t \in BeforeDollar(s) : Len(t) \in lo..hi /\ AllIn(t, DigitChars)

\* str.replace(old, '') for a one-character old
RemoveChar(s, c) == SelectSeq(s, LAMBDA x : x # c)

\* str.zfill(width) of a text without a sign prefix
ZFill(s, width) ==
    IF Len(s) >= width THEN s ELSE [i \in 1..(width - Len(s)) |-> "0"] \o s

\* s[-k:]
LastChars(s, k) == IF Len(s) <= k THEN s ELSE SubSeq(s, Len(s) - k + 1, Len(s))
\* s[:k]
FirstChars(s, k) == IF Len(s) <= k THEN s ELSE SubSeq(s, 1, k)

---------------------------------------------------------------------------
(* account.journal: the character sets and the sanitizers                  *)
(* A character outside ASCII is written by its code point: "U+00E5" is the *)
(* one character a-ring.                                                   *)

LowerChars == {"a", "b", "c", "d", "e", "f", "g", "h", "i", "j", "k", "l", "m",
               "n", "o", "p", "q", "r", "s", "t", "u", "v", "w", "x", "y", "z"}

SWEDBANK_LATIN_CHARS ==
    LowerChars \cup UpperChars \cup DigitChars
        \cup {"/", "-", "?", ":", "(", ")", ".", ",", "'", "+", " "}

\* a-ring, A-ring, a-umlaut, A-umlaut, o-umlaut, O-umlaut
SWEDISH_LOCAL_CHARS == {"U+00E5", "U+00C5", "U+00E4", "U+00C4", "U+00F6", "U+00D6"}

CHAR_REPLACEMENT_MAP ==
    [c \in {"U+00E0", "U+00E1", "U+00E2", "U+00E3", "U+00E4"} |-> <<"a">>]
    @@ [c \in {"U+00E6"} |-> <<"a", "e">>]
    @@ [c \in {"U+00E7"} |-> <<"c">>]
    @@ [c \in {"U+00E8", "U+00E9", "U+00EA", "U+00EB"} |-> <<"e">>]
    @@ [c \in {"U+00EC", "U+00ED", "U+00EE", "U+00EF"} |-> <<"i">>]
    @@ [c \in {"U+00F1"} |-> <<"n">>]
    @@ [c \in {"U+00F2", "U+00F3", "U+00F4", "U+00F5", "U+00F6", "U+00F8"} |-> <<"o">>]
    @@ [c \in {"U+00F9", "U+00FA", "U+00FB", "U+00FC"} |-> <<"u">>]
    @@ [c \in {"U+00FD", "U+00FF"} |-> <<"y">>]
    @@ [c \in {"U+00DF"} |-> <<"s", "s">>]
    @@ [c \in {"U+0153"} |-> <<"o", "e">>]
    @@ [c \in {"U+00C0", "U+00C1", "U+00C2", "U+00C3", "U+00C4"} |-> <<"A">>]
    @@ [c \in {"U+00C6"} |-> <<"A", "E">>]
    @@ [c \in {"U+00C7"} |-> <<"C">>]
    @@ [c \in {"U+00C8", "U+00C9", "U+00CA", "U+00CB"} |-> <<"E">>]
    @@ [c \in {"U+00CC", "U+00CD", "U+00CE", "U+00CF"} |-> <<"I">>]
    @@ [c \in {"U+00D1"} |-> <<"N">>]
    @@ [c \in {"U+00D2", "U+00D3", "U+00D4", "U+00D5", "U+00D6", "U+00D8"} |-> <<"O">>]
    @@ [c \in {"U+00D9", "U+00DA", "U+00DB", "U+00DC"} |-> <<"U">>]
    @@ [c \in {"U+00DD"} |-> <<"Y">>]
    @@ [c \in {"U+0152"} |-> <<"O", "E">>]

\* char.lower() of a character that is neither allowed nor a key of the map: the
\* capital y-diaeresis (U+0178) and the capital sharp s (U+1E9E) have a lower-case
\* form that is a key; every other character has none
CharLower(c) ==
    CASE c = "U+0178" -> "U+00FF"
      [] c = "U+1E9E" -> "U+00DF"
      [] OTHER -> c

\* char.isupper() of the same characters
CharIsUpper(c) == c \in {"U+0178", "U+1E9E"}

\* str.upper() of a replacement text
ReplacementUpper(s) ==
    [i \in 1..Len(s) |-> CASE s[i] = "y" -> "Y" [] s[i] = "s" -> "S" [] OTHER -> s[i]]

\* what the loop of _swedbank_sanitize_text appends for one character
SanitizeChar(char, allowed_chars) ==
    IF char \in allowed_chars THEN <<char>>
    ELSE IF char \in DOMAIN CHAR_REPLACEMENT_MAP THEN CHAR_REPLACEMENT_MAP[char]
    ELSE IF CharLower(char) \in DOMAIN CHAR_REPLACEMENT_MAP
        THEN LET replacement == CHAR_REPLACEMENT_MAP[CharLower(char)] IN
             IF CharIsUpper(char) THEN ReplacementUpper(replacement) ELSE replacement
    ELSE <<>>

RECURSIVE SanitizeLoop(_, _)
\* ''.join(result) after the loop over the characters of text
SanitizeLoop(text, allowed_chars) ==
    IF text = <<>> THEN <<>>
    ELSE SanitizeChar(text[1], allowed_chars) \o SanitizeLoop(Tail(text), allowed_chars)

\* '//' in s
HasDoubleSlash(s) == \E i \in 1..(Len(s) - 1) : s[i] = "/" /\ s[i + 1] = "/"

RECURSIVE ReplaceDoubleSlash(_)
\* s.replace('//', '/'): the occurrences are taken from the left, without overlap
ReplaceDoubleSlash(s) ==
    IF Len(s) < 2 THEN s
    ELSE IF s[1] = "/" /\ s[2] = "/"
        THEN <<"/">> \o ReplaceDoubleSlash(SubSeq(s, 3, Len(s)))
    ELSE <<s[1]>> \o ReplaceDoubleSlash(Tail(s))

RECURSIVE CollapseSlashes(_)
\* while '//' in sanitized: sanitized = sanitized.replace('//', '/')
CollapseSlashes(s) ==
    IF HasDoubleSlash(s) THEN CollapseSlashes(ReplaceDoubleSlash(s)) ELSE s

\* the sanitizer without the loop that collapses the slashes
_swedbank_sanitize_text_NoCollapse(text, max_length, allow_swedish) ==
    IF text = <<>> THEN <<>>
    ELSE LET allowed_chars == IF allow_swedish
                              THEN SWEDBANK_LATIN_CHARS \cup SWEDISH_LOCAL_CHARS
                              ELSE SWEDBANK_LATIN_CHARS
             sanitized == SanitizeLoop(text, allowed_chars)
         IN  FirstChars(sanitized, max_length)

\* _swedbank_sanitize_text, for a max_length >= 0
_swedbank_sanitize_text(text, max_length, allow_swedish) ==
    IF text = <<>> THEN <<>>
    ELSE LET allowed_chars == IF allow_swedish
                              THEN SWEDBANK_LATIN_CHARS \cup SWEDISH_LOCAL_CHARS
                              ELSE SWEDBANK_LATIN_CHARS
             sanitized == CollapseSlashes(SanitizeLoop(text, allowed_chars))
         IN  FirstChars(sanitized, max_length)

RECURSIVE StripSlashes(_)
\* s.strip('/')
StripSlashes(s) ==
    IF s = <<>> THEN s
    ELSE IF s[1] = "/" THEN StripSlashes(Tail(s))
    ELSE IF s[Len(s)] = "/" THEN StripSlashes(SubSeq(s, 1, Len(s) - 1))
    ELSE s

\* the sanitizer with the strip done before the cut to max_length
_swedbank_sanitize_id_StripFirst(text, max_length) ==
    IF text = <<>> THEN <<>>
    ELSE LET sanitized == StripSlashes(_swedbank_sanitize_text(text, Len(text) * 2, FALSE))
         IN  FirstChars(CollapseSlashes(sanitized), max_length)

\* _swedbank_sanitize_id, for a max_length >= 0
_swedbank_sanitize_id(text, max_length) ==
    IF text = <<>> THEN <<>>
    ELSE LET sanitized == StripSlashes(_swedbank_sanitize_text(text, max_length, FALSE))
         IN  FirstChars(CollapseSlashes(sanitized), max_length)

---------------------------------------------------------------------------
(* account.journal: the agreement ID constraint *)

AgreementIdSize == 16

\* re.match(r'^[0-9]{12}[A-Z][0-9]{3}$', id)
MatchesAgreementPattern(id) ==
    \E t \in BeforeDollar(id) :
        /\ Len(t) = 16
        /\ \A i \in 1..12 : t[i] \in DigitChars
        /\ t[13] \in UpperChars
        /\ \A i \in 14..16 : t[i] \in DigitChars

\* the constraint with a pattern that also admits a lower-case letter
_check_swedbank_agreement_id_AnyCase(id) ==
    IF id # <<>>
       /\ ~(\E t \in BeforeDollar(id) :
               /\ Len(t) = 16
               /\ \A i \in 1..12 : t[i] \in DigitChars
               /\ t[13] \in UpperChars \cup {"a", "b"}
               /\ \A i \in 14..16 : t[i] \in DigitChars)
    THEN "ValidationError" ELSE "ok"

\* _check_swedbank_agreement_id: what the constraint does with a journal whose
\* field holds id
_check_swedbank_agreement_id(id) ==
    IF id # <<>> /\ ~MatchesAgreementPattern(id) THEN "ValidationError" ELSE "ok"

---------------------------------------------------------------------------
(* res.partner.bank: classification and formatting *)

PlusgiroClearing == <<"9", "9", "6", "0">>

\* acc_number.replace(' ', '').replace('-', '')
NormalizeAccount(number) == RemoveChar(RemoveChar(number, " "), "-")

\* _compute_swedbank_account_type for one record ("" is False)
_compute_swedbank_account_type(type, number, clearing) ==
    IF type = "iban" THEN "iban"
    ELSE IF number # <<>> THEN
        LET acc == NormalizeAccount(number) IN
        IF ReMatchDigits(acc, 7, 8) /\ clearing = <<>> THEN "bankgiro"
        ELSE IF ReMatchDigits(acc, 1, 10) /\ clearing = PlusgiroClearing THEN "plusgiro"
        ELSE "bban"
    ELSE ""

\* str.upper() on the characters account numbers are made of here
UpperCase(s) ==
    [i \in 1..Len(s) |->
        CASE s[i] = "x" -> "X" [] s[i] = "s" -> "S" [] s[i] = "e" -> "E" [] OTHER -> s[i]]

\* the formatting without the zero padding of Bankgiro numbers
_compute_swedbank_formatted_account_NoPadding(number, clearing, stored_type) ==
    IF number = <<>> THEN <<>>
    ELSE
        LET acc == NormalizeAccount(number) IN
        IF stored_type = "iban" THEN UpperCase(acc)
        ELSE IF stored_type = "bankgiro" THEN LastChars(acc, 8)
        ELSE IF stored_type = "plusgiro" THEN acc
        ELSE IF clearing # <<>> /\ clearing[1] = "8"
            THEN FirstChars(ZFill(clearing, 5), 5) \o LastChars(ZFill(acc, 10), 10)
        ELSE IF clearing # <<>> /\ clearing[1] = "7"
            THEN FirstChars(clearing, 4) \o LastChars(ZFill(acc, 7), 7)
        ELSE clearing \o acc

\* _compute_swedbank_formatted_account for one record; stored_type is the
\* record's swedbank_account_type
_compute_swedbank_formatted_account(number, clearing, stored_type) ==
    IF number = <<>> THEN <<>>
    ELSE
        LET acc == NormalizeAccount(number) IN
        IF stored_type = "iban" THEN UpperCase(acc)
        ELSE IF stored_type = "bankgiro" THEN LastChars(ZFill(acc, 8), 8)
        ELSE IF stored_type = "plusgiro" THEN acc
        ELSE IF clearing # <<>> /\ clearing[1] = "8"
            THEN FirstChars(ZFill(clearing, 5), 5) \o LastChars(ZFill(acc, 10), 10)
        ELSE IF clearing # <<>> /\ clearing[1] = "7"
            THEN FirstChars(clearing, 4) \o LastChars(ZFill(acc, 7), 7)
        ELSE clearing \o acc

\* _check_swedbank_clearing_code: what the constraint does with a record whose
\* field holds clearing
_check_swedbank_clearing_code(clearing) ==
    IF clearing # <<>> /\ ~ReMatchDigits(clearing, 4, 5) THEN "ValidationError" ELSE "ok"

\* _onchange_swedbank_account_type: the clearing code the form holds after the
\* onchange
_onchange_swedbank_account_type(stored_type, clearing) ==
    IF stored_type = "bankgiro" THEN <<"9", "9", "0", "0">>
    ELSE IF stored_type = "plusgiro" THEN <<"9", "9", "6", "0">>
    ELSE clearing

\* _get_swedbank_creditor_agent_clearing: (clearing system, member), "" and <<>>
\* for None
_get_swedbank_creditor_agent_clearing(stored_type, clearing) ==
    IF stored_type = "bankgiro" THEN <<"SESBA", <<"9", "9", "0", "0">> >>
    ELSE IF stored_type = "plusgiro" THEN <<"SESBA", <<"9", "9", "6", "0">> >>
    ELSE IF clearing # <<>> THEN <<"SESBA", clearing>>
    ELSE <<"", <<>> >>

---------------------------------------------------------------------------
(* Records handed to the generator *)

\* texts of the test fixture and of the creditor accounts
AgreementId1 ==
    <<"1", "2", "3", "4", "5", "6", "7", "8", "9", "0", "1", "2", "A", "0", "0", "1">>
Bankgiro8 == <<"1", "2", "3", "4", "5", "6", "7", "8">>
Bankgiro7 == <<"1", "2", "3", "4", "5", "6", "7">>
IbanText == <<"s", "e", "3", "5", " ", "5", "0", "0", "0">>
BankgiroClearing == <<"9", "9", "0", "0">>
SwedbankClearing == <<"8", "3", "2", "7">>

\* the empty recordset of res.partner.bank: every field reads False
NoBank ==
    [id |-> 0, acc_number |-> <<>>, acc_type |-> "", swedbank_clearing_code |-> <<>>,
     swedbank_account_type |-> ""]

\* a res.partner.bank record whose stored swedbank_account_type is the one the
\* compute method derives from its fields
BankRecord(id, number, type, clearing) ==
    [id |-> id, acc_number |-> number, acc_type |-> type,
     swedbank_clearing_code |-> clearing,
     swedbank_account_type |-> _compute_swedbank_account_type(type, number, clearing)]

\* the company's account of the test fixture (test_swedbank_xml.py, company_bank)
CompanyBank == [id |-> 1, acc_number |-> "SE4550000000058398257466", acc_type |-> "iban"]
\* account.journal with no bank account
NoBankAccount == [id |-> 0, acc_number |-> "", acc_type |-> ""]

\* creditor accounts: Bankgiro number with clearing code 9900 (the test fixture's
\* partner_bank_bg), an IBAN, a domestic account with a clearing code, a Bankgiro
\* number without clearing code
PartnerBankBg == BankRecord(2, Bankgiro8, "bank", BankgiroClearing)
PartnerBankIban == BankRecord(3, IbanText, "iban", <<>>)
PartnerBankBban == BankRecord(4, Bankgiro8, "bank", SwedbankClearing)
PartnerBankGiro == BankRecord(5, Bankgiro7, "bank", <<>>)

\* execution dates; NoDate is a payment without date
NoDate == 0
Dates == {1, 2}

\* a reference longer than the 35 characters of an identifier
LongRef == <<"I", "N", "V", "-", "0", "0", "1">> \o [i \in 1..33 |-> "7"]

\* account.payment records the batches are made of (id is the row's index).
\* name and ref are texts (<<>> is False); a payment that was not posted yet has
\* the name '/' or none.  swedbank_service_level and swedbank_category_purpose
\* are the payment's own selections ("" when unset).
account_payment ==
    << [id |-> 1, name |-> <<"P", "A", "Y", "1">>, ref |-> LongRef,
        partner_id |-> TRUE, amount |-> 100000,
        currency |-> "SEK", date |-> 1, partner_bank_id |-> PartnerBankBg,
        swedbank_service_level |-> "", swedbank_category_purpose |-> ""],
       [id |-> 2, name |-> <<"P", "A", "Y", "2">>, ref |-> <<"/", "/">>,
        partner_id |-> TRUE, amount |-> 2550,
        currency |-> "EUR", date |-> 2, partner_bank_id |-> PartnerBankIban,
        swedbank_service_level |-> "URGP", swedbank_category_purpose |-> "CORT"],
       [id |-> 3, name |-> <<"P", "A", "Y", "3">>, ref |-> <<>>,
        partner_id |-> TRUE, amount |-> 0,
        currency |-> "SEK", date |-> 1, partner_bank_id |-> NoBank,
        swedbank_service_level |-> "", swedbank_category_purpose |-> ""],
       [id |-> 4, name |-> <<>>, ref |-> <<>>,
        partner_id |-> TRUE, amount |-> 1999,
        currency |-> "EUR", date |-> 1, partner_bank_id |-> PartnerBankBban,
        swedbank_service_level |-> "", swedbank_category_purpose |-> ""],
       [id |-> 5, name |-> <<"/">>, ref |-> <<>>,
        partner_id |-> TRUE, amount |-> 5,
        currency |-> "EUR", date |-> NoDate, partner_bank_id |-> PartnerBankGiro,
        swedbank_service_level |-> "", swedbank_category_purpose |-> "TREA"],
       [id |-> 6, name |-> <<"P", "A", "Y", "6">>, ref |-> <<>>,
        partner_id |-> FALSE, amount |-> -100,
        currency |-> "SEK", date |-> 2, partner_bank_id |-> NoBank,
        swedbank_service_level |-> "", swedbank_category_purpose |-> ""] >>

\* recordsets of at most MaxBatch payments; a recordset built with '+' may hold
\* the same record more than once
Batches ==
    UNION {[1..n -> {account_payment[i] : i \in DOMAIN account_payment}] : n \in 0..MaxBatch}

---------------------------------------------------------------------------
(* '%.2f' of an amount *)

DigitOf(d) == <<"0", "1", "2", "3", "4", "5", "6", "7", "8", "9">>[d + 1]

RECURSIVE DecimalDigits(_)
\* str(n) for n >= 0
DecimalDigits(n) ==
    IF n < 10 THEN <<DigitOf(n)>> ELSE Append(DecimalDigits(n \div 10), DigitOf(n % 10))

\* '%.2f' % amount, amount in hundredths
Format2f(amount) ==
    LET a == IF amount < 0 THEN 0 - amount ELSE amount
        text == DecimalDigits(a \div 100) \o <<".", DigitOf((a % 100) \div 10), DigitOf(a % 10)>>
    IN  IF amount < 0 THEN <<"-">> \o text ELSE text

RECURSIVE SumAmounts(_)
\* sum(payments.mapped('amount')): one term per element of the recordset
SumAmounts(payments) ==
    IF payments = <<>> THEN 0
    ELSE payments[1].amount + SumAmounts(Tail(payments))

---------------------------------------------------------------------------
(* account.journal: create_swedbank_credit_transfer *)

\* the rules with an amount test that lets a zero amount pass
ViolatedRule_ZeroAccepted(payment) ==
    IF ~payment.partner_id THEN "no_partner"
    ELSE IF payment.amount < 0 THEN "invalid_amount"
    ELSE IF swedbank_service_level = "SEPA" /\ payment.currency # "EUR" THEN "sepa_currency"
    ELSE "none"

\* the rules without the SEPA currency test
ViolatedRule_NoCurrencyRule(payment) ==
    IF ~payment.partner_id THEN "no_partner"
    ELSE IF payment.amount <= 0 THEN "invalid_amount"
    ELSE "none"

\* the first rule of _swedbank_validate_payments one payment violates, in the
\* order of the loop body; "none" when the payment passes
ViolatedRule(payment) ==
    IF ~payment.partner_id THEN "no_partner"
    ELSE IF payment.amount <= 0 THEN "invalid_amount"
    ELSE IF swedbank_service_level = "SEPA" /\ payment.currency # "EUR" THEN "sepa_currency"
    ELSE "none"

\* the UserError a violated rule raises: the message holds payment.name and, for
\* the currency rule, currency_id.name
PaymentError(payment, rule) ==
    [type |-> "UserError", rule |-> rule, payment |-> payment.name,
     currency |-> IF rule = "sepa_currency" THEN payment.currency ELSE ""]

NoError == [type |-> "none", rule |-> "none", payment |-> <<>>, currency |-> ""]

\* the validation that reports the last offending payment
_swedbank_validate_payments_LastOffender(payments) ==
    LET bad == {i \in 1..Len(payments) : ViolatedRule(payments[i]) # "none"} IN
    IF bad = {} THEN [error |-> NoError, examined |-> Len(payments)]
    ELSE LET last == CHOOSE i \in bad : \A j \in bad : i >= j IN
         [error |-> PaymentError(payments[last], ViolatedRule(payments[last])),
          examined |-> last]

\* _swedbank_validate_payments: the loop stops at the first payment that violates
\* a rule; examined counts the payments the loop looked at
_swedbank_validate_payments(payments) ==
    LET bad == {i \in 1..Len(payments) : ViolatedRule(payments[i]) # "none"} IN
    IF bad = {} THEN [error |-> NoError, examined |-> Len(payments)]
    ELSE LET first == CHOOSE i \in bad : \A j \in bad : i <= j IN
         [error |-> PaymentError(payments[first], ViolatedRule(payments[first])),
          examined |-> first]

\* recordset | record: the record is added unless the recordset holds it already
Union(records, record) ==
    IF \E i \in 1..Len(records) : records[i].id = record.id
    THEN records ELSE Append(records, record)

\* the grouping with a new key put before the keys seen so far
AddToGroup_NewestFirst(groups, key, payment) ==
    IF \E i \in 1..Len(groups) : groups[i].key = key
    THEN [i \in 1..Len(groups) |->
            IF groups[i].key = key
            THEN [groups[i] EXCEPT !.payments = Union(@, payment)]
            ELSE groups[i]]
    ELSE <<[key |-> key, payments |-> <<payment>>]>> \o groups

\* groups[key] |= payment on the insertion-ordered dict, kept as a sequence of
\* [key, payments] in insertion order of the keys
AddToGroup(groups, key, payment) ==
    IF \E i \in 1..Len(groups) : groups[i].key = key
    THEN [i \in 1..Len(groups) |->
            IF groups[i].key = key
            THEN [groups[i] EXCEPT !.payments = Union(@, payment)]
            ELSE groups[i]]
    ELSE Append(groups, [key |-> key, payments |-> <<payment>>])

RECURSIVE GroupLoop(_, _, _)
GroupLoop(groups, payments, today) ==
    IF payments = <<>> THEN groups
    ELSE LET payment == payments[1]
             exec_date == IF payment.date # NoDate THEN payment.date ELSE today
             key == <<bank_account_id.id, exec_date>>
         IN  GroupLoop(AddToGroup(groups, key, payment), Tail(payments), today)

\* _swedbank_group_payments; today is fields.Date.today()
_swedbank_group_payments(payments, today) == GroupLoop(<<>>, payments, today)

\* _swedbank_get_grp_hdr
_swedbank_get_grp_hdr(payments) ==
    [NbOfTxs |-> Len(payments),
     CtrlSum |-> Format2f(SumAmounts(payments)),
     InitgPty |-> [Id |-> swedbank_agreement_id, SchmeNm |-> [Cd |-> "BANK"]]]

\* account.journal field, left at its default
swedbank_category_purpose == "SUPP"

\* _swedbank_get_pmt_tp_inf: the service level code and the category purpose code
_swedbank_get_pmt_tp_inf(payment) ==
    [SvcLvl |-> IF swedbank_service_level # "" THEN swedbank_service_level ELSE "NURG",
     CtgyPurp |-> IF swedbank_category_purpose # "" THEN swedbank_category_purpose
                  ELSE "SUPP"]

\* the charge bearer code without the SEPA override
ChargeBearer_Configured ==
    IF swedbank_charge_bearer # "" THEN swedbank_charge_bearer ELSE "SHAR"

\* the charge bearer code of _swedbank_get_pmt_inf
ChargeBearer ==
    LET charge_bearer == IF swedbank_charge_bearer # "" THEN swedbank_charge_bearer
                         ELSE "SHAR"
    IN  IF swedbank_service_level = "SEPA" THEN "SLEV" ELSE charge_bearer

\* _swedbank_get_cdtr_acct; tag "" is None (no element)
_swedbank_get_cdtr_acct(payment) ==
    LET partner_bank == payment.partner_bank_id IN
    IF partner_bank.id = 0 \/ partner_bank.acc_number = <<>>
    THEN [tag |-> "", Id |-> <<>>, SchmeNm |-> <<>>]
    ELSE LET number == NormalizeAccount(partner_bank.acc_number) IN
         IF partner_bank.acc_type = "iban"
         THEN [tag |-> "IBAN", Id |-> UpperCase(number), SchmeNm |-> <<>>]
         ELSE [tag |-> "Othr", Id |-> number,
               SchmeNm |-> IF partner_bank.swedbank_account_type = "bankgiro"
                           THEN <<"Prtry", "BGNR">>
                           ELSE <<"Cd", "BBAN">>]

\* str(uuid.uuid4()): 36 characters, hexadecimal digits in five runs joined by dashes
Uuid4Text ==
    [i \in 1..36 |-> IF i \in {9, 14, 19, 24} THEN "-" ELSE IF i = 15 THEN "4" ELSE "a"]

\* _swedbank_get_cdt_trf_tx_inf: the payment identification, the instructed
\* amount and the creditor account
_swedbank_get_cdt_trf_tx_inf(payment) ==
    [InstrId |->
        _swedbank_sanitize_id(
            IF payment.name # <<>> THEN payment.name
            ELSE <<"P", "M", "T", "-">> \o DecimalDigits(payment.id), 35),
     EndToEndId |->
        _swedbank_sanitize_id(
            IF payment.ref # <<>> THEN payment.ref
            ELSE IF payment.name # <<>> THEN payment.name
            ELSE FirstChars(Uuid4Text, 35), 35),
     InstdAmt |-> [Ccy |-> payment.currency, text |-> Format2f(payment.amount)],
     CdtrAcct |-> _swedbank_get_cdtr_acct(payment)]

\* _swedbank_get_pmt_inf
_swedbank_get_pmt_inf(payments, group_key) ==
    [PmtMtd |-> "TRF",
     NbOfTxs |-> Len(payments),
     CtrlSum |-> Format2f(SumAmounts(payments)),
     PmtTpInf |-> _swedbank_get_pmt_tp_inf(payments[1]),
     ReqdExctnDt |-> group_key[2],
     ChrgBr |-> ChargeBearer,
     CdtTrfTxInf |-> [i \in 1..Len(payments) |-> _swedbank_get_cdt_trf_tx_inf(payments[i])]]

\* the configuration checks with the bank account tested first
CheckConfiguration_BankFirst ==
    IF bank_account_id.id = 0
    THEN [rule |-> "no_bank_account", stages |-> <<"check_bank_account">>]
    ELSE IF swedbank_agreement_id = <<>>
    THEN [rule |-> "no_agreement_id", stages |-> <<"check_bank_account", "check_agreement_id">>]
    ELSE [rule |-> "none", stages |-> <<"check_bank_account", "check_agreement_id">>]

\* the two configuration checks that open create_swedbank_credit_transfer: the
\* rule violated ("none" when both pass) and the steps taken
CheckConfiguration ==
    IF swedbank_agreement_id = <<>>
    THEN [rule |-> "no_agreement_id", stages |-> <<"check_agreement_id">>]
    ELSE IF bank_account_id.id = 0
    THEN [rule |-> "no_bank_account", stages |-> <<"check_agreement_id", "check_bank_account">>]
    ELSE [rule |-> "none", stages |-> <<"check_agreement_id", "check_bank_account">>]

NoDocument == [root |-> "", xmlns |-> "", GrpHdr |-> <<>>, PmtInf |-> <<>>]

\* the elements of the tree, as they appear in stages
TreeStages == {"Document", "CstmrCdtTrfInitn", "GrpHdr", "PmtInf"}

\* create_swedbank_credit_transfer: the outcome ("ok" or the error raised), the
\* steps taken in order, the number of payments the validation examined and the
\* document returned
create_swedbank_credit_transfer(payments, today) ==
    LET config == CheckConfiguration IN
    IF config.rule # "none"
    THEN [outcome |-> "UserError",
          error |-> [type |-> "UserError", rule |-> config.rule, payment |-> <<>>,
                     currency |-> ""],
          stages |-> config.stages, examined |-> 0, document |-> NoDocument]
    ELSE
    LET checked == _swedbank_validate_payments(payments) IN
    IF checked.error.type # "none"
    THEN [outcome |-> "UserError", error |-> checked.error,
          stages |-> config.stages \o <<"validate_payments">>,
          examined |-> checked.examined, document |-> NoDocument]
    ELSE
    LET payment_groups == _swedbank_group_payments(payments, today) IN
    [outcome |-> "ok", error |-> NoError,
     stages |-> config.stages
                \o <<"validate_payments", "Document", "CstmrCdtTrfInitn", "GrpHdr",
                     "group_payments">>
                \o [i \in 1..Len(payment_groups) |-> "PmtInf"]
                \o <<"tostring">>,
     examined |-> checked.examined,
     document |->
        [root |-> "Document",
         xmlns |-> "urn:iso:std:iso:20022:tech:xsd:pain.001.001.03",
         GrpHdr |-> _swedbank_get_grp_hdr(payments),
         PmtInf |-> [i \in 1..Len(payment_groups) |->
                        _swedbank_get_pmt_inf(payment_groups[i].payments,
                                              payment_groups[i].key)]]]

---------------------------------------------------------------------------
(* account.journal: schema validation *)

\* the schema file on disk: absent, present but not a schema that parses, present
\* and loaded
XsdStates == {"missing", "unparsable", "loaded"}

\* _swedbank_get_xsd_schema: the XMLSchema object, or None
_swedbank_get_xsd_schema(xsd) == IF xsd = "loaded" THEN "XMLSchema" ELSE "None"

Advisory == "Schema validation skipped - XSD not available"

\* str(error) of the i-th entry of schema.error_log
SchemaError(i) == [text |-> "%s", arg |-> i]

\* swedbank_validate_xml without the test of the schema before the parse
swedbank_validate_xml_ParseFirst(xsd, xml_content, report) ==
    LET schema == _swedbank_get_xsd_schema(xsd) IN
    IF ~xml_content.well_formed
    THEN [is_valid |-> FALSE, errors |-> <<"XML Syntax Error">>]
    ELSE IF schema = "None" THEN [is_valid |-> TRUE, errors |-> <<Advisory>>]
    ELSE IF report = 0 THEN [is_valid |-> TRUE, errors |-> <<>>]
    ELSE [is_valid |-> FALSE, errors |-> [i \in 1..report |-> SchemaError(i)]]

\* swedbank_validate_xml: xml_content is well formed or not; report is the number
\* of entries schema.validate leaves in the error log (0 when the document is
\* valid)
swedbank_validate_xml(xsd, xml_content, report) ==
    LET schema == _swedbank_get_xsd_schema(xsd) IN
    IF schema = "None" THEN [is_valid |-> TRUE, errors |-> <<Advisory>>]
    ELSE IF ~xml_content.well_formed
    THEN [is_valid |-> FALSE, errors |-> <<"XML Syntax Error">>]
    ELSE IF report = 0 THEN [is_valid |-> TRUE, errors |-> <<>>]
    ELSE [is_valid |-> FALSE, errors |-> [i \in 1..report |-> SchemaError(i)]]

\* the message without the cut to 10 errors
SchemaErrorMessage_AllErrors(errors) ==
    <<"Generated XML failed Swedbank schema validation:">> \o errors

\* error_msg of create_swedbank_credit_transfer_validated, line by line
SchemaErrorMessage(errors) ==
    <<"Generated XML failed Swedbank schema validation:">>
        \o FirstChars(errors, 10)
        \o (IF Len(errors) > 10
            THEN <<[text |-> "... and %d more errors", arg |-> Len(errors) - 10]>>
            ELSE <<>>)

\* create_swedbank_credit_transfer_validated; the generated document is what
\* etree.tostring wrote, a well-formed text
create_swedbank_credit_transfer_validated(payments, today, xsd, report) ==
    LET xml_content == create_swedbank_credit_transfer(payments, today) IN
    IF xml_content.outcome # "ok"
    THEN [outcome |-> "UserError", error |-> xml_content.error,
          stages |-> xml_content.stages, message |-> <<>>, document |-> NoDocument]
    ELSE
    LET validation == swedbank_validate_xml(xsd, [well_formed |-> TRUE], report) IN
    IF ~validation.is_valid
    THEN [outcome |-> "UserError",
          error |-> [type |-> "UserError", rule |-> "schema_validation",
                     payment |-> <<>>, currency |-> ""],
          stages |-> xml_content.stages \o <<"swedbank_validate_xml">>,
          message |-> SchemaErrorMessage(validation.errors),
          document |-> NoDocument]
    ELSE [outcome |-> "ok", error |-> NoError,
          stages |-> xml_content.stages \o <<"swedbank_validate_xml">>,
          message |-> <<>>, document |-> xml_content.document]

---------------------------------------------------------------------------
(* Values written to the records *)

Substitute(s, i, c) == [s EXCEPT ![i] = c]
Insert(s, k, c) == SubSeq(s, 1, k) \o <<c>> \o SubSeq(s, k + 1, Len(s))
Min(a, b) == IF a <= b THEN a ELSE b

\* agreement IDs written to the journal: at most AgreementIdSize characters (the
\* field's size): unset, the fixture's ID, that ID with one character replaced by
\* an upper-case letter, a lower-case letter or a dash, and IDs one character
\* short (with and without a closing newline)
AgreementIdInputs ==
    {<<>>, AgreementId1, <<"i", "n", "v", "a", "l", "i", "d">>,
     SubSeq(AgreementId1, 1, AgreementIdSize - 1),
     SubSeq(AgreementId1, 1, AgreementIdSize - 1) \o <<"\n">>}
    \cup {Substitute(AgreementId1, i, c) : i \in 1..AgreementIdSize, c \in {"B", "b", "-"}}

ServiceLevels == {"", "NURG", "SEPA", "URGP", "SDVA"}
ChargeBearers == {"", "SHAR", "SLEV", "DEBT", "CRED"}

\* account numbers written to a bank account: a run of 0..MaxDigits digits, as it
\* is, with a dash or a space inside, followed by a letter, followed by a newline
DigitRun(n) == [i \in 1..n |-> DigitOf(i % 10)]
AccNumbers ==
    UNION {{DigitRun(n), Insert(DigitRun(n), Min(3, n), "-"),
            Insert(DigitRun(n), Min(4, n), " "),
            DigitRun(n) \o <<"x">>, DigitRun(n) \o <<"\n">>} : n \in 0..MaxDigits}

AccTypes == {"iban", "bank"}

\* clearing codes written to a bank account; the last two violate the constraint
ClearingInputs ==
    {<<>>, BankgiroClearing, PlusgiroClearing, SwedbankClearing,
     <<"7", "1", "2", "3", "4">>, <<"1", "2", "3">>, <<"9", "9", "x", "0">>}

---------------------------------------------------------------------------
(* State machine of a journal *)

Idle == [op |-> "idle"]

InitJournal ==
    /\ swedbank_agreement_id = <<>>
    /\ bank_account_id = NoBankAccount
    /\ swedbank_service_level = "NURG"
    /\ swedbank_charge_bearer = "SHAR"
    /\ result = Idle

\* the bank account record the journal's specification leaves alone
FixedBank ==
    /\ acc_number = Bankgiro8
    /\ acc_type = "bank"
    /\ swedbank_clearing_code = <<>>
    /\ swedbank_account_type = "bankgiro"

\* no document was returned yet
InitIds ==
    /\ clock = 0
    /\ issued = [MsgId |-> <<>>, MsgNow |-> <<>>, PmtInfId |-> <<>>, PmtInfNow |-> <<>>]

Init == InitJournal /\ FixedBank /\ InitIds

\* journal.swedbank_agreement_id = value: the constraint runs on the written
\* value and a ValidationError rolls the write back
WriteAgreementId(value) ==
    /\ result = Idle
    /\ LET raised == _check_swedbank_agreement_id(value) IN
       /\ swedbank_agreement_id' = IF raised = "ok" THEN value ELSE swedbank_agreement_id
       /\ result' = [op |-> "write_swedbank_agreement_id", value |-> value, outcome |-> raised]
    /\ UNCHANGED <<bank_account_id, swedbank_service_level, swedbank_charge_bearer>>
    /\ UNCHANGED bank_vars
    /\ UNCHANGED id_vars

WriteBankAccount(account) ==
    /\ result = Idle
    /\ bank_account_id' = account
    /\ UNCHANGED <<swedbank_agreement_id, swedbank_service_level, swedbank_charge_bearer, result>>
    /\ UNCHANGED bank_vars
    /\ UNCHANGED id_vars

WriteServiceLevel(level) ==
    /\ result = Idle
    /\ swedbank_service_level' = level
    /\ UNCHANGED <<swedbank_agreement_id, bank_account_id, swedbank_charge_bearer, result>>
    /\ UNCHANGED bank_vars
    /\ UNCHANGED id_vars

WriteChargeBearer(bearer) ==
    /\ result = Idle
    /\ swedbank_charge_bearer' = bearer
    /\ UNCHANGED <<swedbank_agreement_id, bank_account_id, swedbank_service_level, result>>
    /\ UNCHANGED bank_vars
    /\ UNCHANGED id_vars

\* fields.Date.today() is read for a payment without date only
TodayChoices(payments) ==
    IF \E i \in 1..Len(payments) : payments[i].date = NoDate THEN Dates ELSE {1}

\* journal.create_swedbank_credit_transfer(payments), called on a day today
CreateCreditTransfer(payments, today) ==
    /\ result = Idle
    /\ result' = [op |-> "create_swedbank_credit_transfer", payments |-> payments,
                  today |-> today,
                  returned |-> create_swedbank_credit_transfer(payments, today)]
    /\ UNCHANGED <<swedbank_agreement_id, bank_account_id, swedbank_service_level,
                   swedbank_charge_bearer>>
    /\ UNCHANGED bank_vars
    /\ UNCHANGED id_vars

\* the caller takes the outcome of the call
Return ==
    /\ result # Idle
    /\ result' = Idle
    /\ UNCHANGED <<swedbank_agreement_id, bank_account_id, swedbank_service_level,
                   swedbank_charge_bearer>>
    /\ UNCHANGED bank_vars
    /\ UNCHANGED id_vars

Next ==
    \/ \E value \in AgreementIdInputs : WriteAgreementId(value)
    \/ \E account \in {NoBankAccount, CompanyBank} : WriteBankAccount(account)
    \/ \E level \in ServiceLevels : WriteServiceLevel(level)
    \/ \E bearer \in ChargeBearers : WriteChargeBearer(bearer)
    \/ /\ result = Idle
       /\ \E payments \in Batches : \E today \in TodayChoices(payments) :
             CreateCreditTransfer(payments, today)
    \/ Return

Spec == Init /\ [][Next]_vars

---------------------------------------------------------------------------
(* State machine of a bank account *)

\* res.partner.bank.create(vals): the stored type is computed from the values
CreateBank ==
    /\ acc_number \in AccNumbers
    /\ acc_type \in AccTypes
    /\ swedbank_clearing_code \in {c \in ClearingInputs : _check_swedbank_clearing_code(c) = "ok"}
    /\ swedbank_account_type =
          _compute_swedbank_account_type(acc_type, acc_number, swedbank_clearing_code)

\* bank.acc_number = number: swedbank_account_type depends on acc_number and is
\* recomputed
WriteAccNumber(number) ==
    /\ acc_number' = number
    /\ swedbank_account_type' =
          _compute_swedbank_account_type(acc_type, number, swedbank_clearing_code)
    /\ UNCHANGED <<acc_type, swedbank_clearing_code>>
    /\ UNCHANGED journal_vars
    /\ UNCHANGED id_vars

\* bank.acc_type changes: swedbank_account_type depends on acc_type and is
\* recomputed
WriteAccType(type) ==
    /\ acc_type' = type
    /\ swedbank_account_type' =
          _compute_swedbank_account_type(type, acc_number, swedbank_clearing_code)
    /\ UNCHANGED <<acc_number, swedbank_clearing_code>>
    /\ UNCHANGED journal_vars
    /\ UNCHANGED id_vars

\* bank.swedbank_clearing_code = clearing: the constraint runs and a
\* ValidationError rolls the write back; swedbank_account_type does not depend
\* on the clearing code and keeps its stored value
WriteClearingCode(clearing) ==
    /\ swedbank_clearing_code' =
          IF _check_swedbank_clearing_code(clearing) = "ok" THEN clearing
          ELSE swedbank_clearing_code
    /\ UNCHANGED <<acc_number, acc_type, swedbank_account_type>>
    /\ UNCHANGED journal_vars
    /\ UNCHANGED id_vars

\* the form's onchange on swedbank_account_type, saved: the clearing code is set
\* for a Bankgiro or Plusgiro account; the stored type does not depend on it
OnchangeAccountType ==
    /\ swedbank_clearing_code' =
          _onchange_swedbank_account_type(swedbank_account_type, swedbank_clearing_code)
    /\ UNCHANGED <<acc_number, acc_type, swedbank_account_type>>
    /\ UNCHANGED journal_vars
    /\ UNCHANGED id_vars

NextBank ==
    \/ \E number \in AccNumbers : WriteAccNumber(number)
    \/ \E type \in AccTypes : WriteAccType(type)
    \/ \E clearing \in ClearingInputs : WriteClearingCode(clearing)
    \/ OnchangeAccountType

InitBank == InitJournal /\ CreateBank /\ InitIds

SpecBank == InitBank /\ [][NextBank]_vars

---------------------------------------------------------------------------
(* State machine of the sanitizers *)

\* characters the texts handed to the sanitizers are made of: an allowed letter,
\* the slash, a-ring (Swedish, no replacement), O-umlaut (Swedish, replaced by O),
\* sharp s (replaced by two letters), capital y-diaeresis (replaced through its
\* lower-case form) and a character that is dropped
TextChars == {"a", "/", "U+00E5", "U+00D6", "U+00DF", "U+0178", "#"}

\* the texts of test_sanitize_text
FixtureTexts ==
    {<<"F", "o", "r", "e", "t", "a", "g", " ", "A", "B">>,
     <<"T", "e", "s", "t", "/", "/", "R", "e", "f">>}

Texts == UNION {[1..n -> TextChars] : n \in 0..MaxText} \cup FixtureTexts

\* max_length arguments: the short ones and the defaults of the two methods
MaxLengths == (0..MaxLength) \cup {35, 140}

\* journal._swedbank_sanitize_text(text, max_length, allow_swedish)
SanitizeText(text, max_length, allow_swedish) ==
    /\ result = Idle
    /\ result' = [op |-> "_swedbank_sanitize_text", text |-> text,
                  max_length |-> max_length, allow_swedish |-> allow_swedish,
                  returned |-> _swedbank_sanitize_text(text, max_length, allow_swedish)]
    /\ UNCHANGED <<swedbank_agreement_id, bank_account_id, swedbank_service_level,
                   swedbank_charge_bearer>>
    /\ UNCHANGED bank_vars
    /\ UNCHANGED id_vars

\* journal._swedbank_sanitize_id(text, max_length)
SanitizeId(text, max_length) ==
    /\ result = Idle
    /\ result' = [op |-> "_swedbank_sanitize_id", text |-> text,
                  max_length |-> max_length,
                  returned |-> _swedbank_sanitize_id(text, max_length)]
    /\ UNCHANGED <<swedbank_agreement_id, bank_account_id, swedbank_service_level,
                   swedbank_charge_bearer>>
    /\ UNCHANGED bank_vars
    /\ UNCHANGED id_vars

\* a call is made when no call is in progress
NextText ==
    \/ /\ result = Idle
       /\ \E text \in Texts, max_length \in MaxLengths, allow_swedish \in BOOLEAN :
             SanitizeText(text, max_length, allow_swedish)
    \/ /\ result = Idle
       /\ \E text \in Texts, max_length \in MaxLengths : SanitizeId(text, max_length)
    \/ Return

SpecText == Init /\ [][NextText]_vars

---------------------------------------------------------------------------
(* State machine of the validated generation *)

\* the batches of at most two payments
ShortBatches == {payments \in Batches : Len(payments) <= 2}

\* numbers of entries the validator leaves in the error log
Reports == 0..MaxErrors

\* a journal as the writes of the journal's state machine leave it
InitValidated ==
    /\ swedbank_agreement_id \in {<<>>, AgreementId1}
    /\ bank_account_id \in {NoBankAccount, CompanyBank}
    /\ swedbank_service_level \in {"NURG", "SEPA"}
    /\ swedbank_charge_bearer = "SHAR"
    /\ result = Idle
    /\ FixedBank
    /\ InitIds

\* journal.swedbank_validate_xml(xml_content)
ValidateXml(xsd, xml_content, report) ==
    /\ result = Idle
    /\ result' = [op |-> "swedbank_validate_xml", xsd |-> xsd,
                  xml_content |-> xml_content, report |-> report,
                  returned |-> swedbank_validate_xml(xsd, xml_content, report)]
    /\ UNCHANGED <<swedbank_agreement_id, bank_account_id, swedbank_service_level,
                   swedbank_charge_bearer>>
    /\ UNCHANGED bank_vars
    /\ UNCHANGED id_vars

\* journal.create_swedbank_credit_transfer_validated(payments)
CreateCreditTransferValidated(payments, today, xsd, report) ==
    /\ result = Idle
    /\ result' = [op |-> "create_swedbank_credit_transfer_validated",
                  payments |-> payments, today |-> today, xsd |-> xsd,
                  report |-> report,
                  returned |-> create_swedbank_credit_transfer_validated(
                                   payments, today, xsd, report)]
    /\ UNCHANGED <<swedbank_agreement_id, bank_account_id, swedbank_service_level,
                   swedbank_charge_bearer>>
    /\ UNCHANGED bank_vars
    /\ UNCHANGED id_vars

NextValidated ==
    \/ /\ result = Idle
       /\ \E xsd \in XsdStates, well_formed \in BOOLEAN, report \in Reports :
             ValidateXml(xsd, [well_formed |-> well_formed], report)
    \/ /\ result = Idle
       /\ \E payments \in ShortBatches : \E today \in TodayChoices(payments) :
             \E xsd \in XsdStates, report \in Reports :
                CreateCreditTransferValidated(payments, today, xsd, report)
    \/ Return

SpecValidated == InitValidated /\ [][NextValidated]_vars

---------------------------------------------------------------------------
(* State machine of the identifiers *)

\* journal.company_id.id and journal.id
CompanyId == 1
JournalId == 1

\* datetime.now().strftime('%Y%m%d%H%M%S%f') of a reading: 20 digits, one text per
\* microsecond
Timestamp(reading) == ZFill(DecimalDigits(reading), 20)

\* msg_id of _swedbank_get_grp_hdr
MsgIdAt(reading) ==
    _swedbank_sanitize_id(
        <<"M", "S", "G", "-">> \o DecimalDigits(CompanyId) \o <<"-">> \o Timestamp(reading),
        35)

\* pmt_inf_id of _swedbank_get_pmt_inf
PmtInfIdAt(reading) ==
    _swedbank_sanitize_id(
        <<"P", "M", "T", "I", "N", "F", "-">> \o DecimalDigits(JournalId) \o <<"-">>
            \o Timestamp(reading),
        35)

\* a journal with agreement ID and bank account
InitConfigured ==
    /\ swedbank_agreement_id = AgreementId1
    /\ bank_account_id = CompanyBank
    /\ swedbank_service_level = "NURG"
    /\ swedbank_charge_bearer = "SHAR"
    /\ result = Idle
    /\ FixedBank
    /\ InitIds

\* journal.create_swedbank_credit_transfer(payments) with its readings of the
\* clock: now[0] is the reading of _swedbank_get_grp_hdr, now[k] the reading of
\* _swedbank_get_pmt_inf for the k-th group.  A reading is never before the
\* previous one; two readings may be equal (calls of two workers, or a clock
\* coarser than the time between two readings).  A call that raises reads no
\* clock.
CreateCreditTransferAt(payments, today) ==
    /\ result = Idle
    /\ Len(issued.MsgId) < MaxCalls
    /\ LET returned == create_swedbank_credit_transfer(payments, today)
           groups == Len(returned.document.PmtInf)
       IN  IF returned.outcome # "ok"
           THEN /\ result' = [op |-> "create_swedbank_credit_transfer",
                              payments |-> payments, today |-> today,
                              returned |-> returned, MsgId |-> <<>>, PmtInfId |-> <<>>]
                /\ UNCHANGED id_vars
           ELSE \E now \in [0..groups -> clock..MaxClock] :
                /\ \A k \in 1..groups : now[k - 1] <= now[k]
                /\ result' = [op |-> "create_swedbank_credit_transfer",
                              payments |-> payments, today |-> today,
                              returned |-> returned,
                              MsgId |-> MsgIdAt(now[0]),
                              PmtInfId |-> [k \in 1..groups |-> PmtInfIdAt(now[k])]]
                /\ clock' = now[groups]
                /\ issued' =
                      [MsgId |-> Append(issued.MsgId, MsgIdAt(now[0])),
                       MsgNow |-> Append(issued.MsgNow, now[0]),
                       PmtInfId |-> issued.PmtInfId
                                      \o [k \in 1..groups |-> PmtInfIdAt(now[k])],
                       PmtInfNow |-> issued.PmtInfNow \o [k \in 1..groups |-> now[k]]]
    /\ UNCHANGED <<swedbank_agreement_id, bank_account_id, swedbank_service_level,
                   swedbank_charge_bearer>>
    /\ UNCHANGED bank_vars

NextIds ==
    \/ /\ result = Idle
       /\ \E payments \in ShortBatches : \E today \in TodayChoices(payments) :
             CreateCreditTransferAt(payments, today)
    \/ Return

SpecIds == InitConfigured /\ [][NextIds]_vars

---------------------------------------------------------------------------
(* Reading a call's outcome *)

Called == result.op = "create_swedbank_credit_transfer"
Produced == Called /\ result.returned.outcome = "ok"
Rejected == Called /\ result.returned.outcome = "UserError"
Configured == swedbank_agreement_id # <<>> /\ bank_account_id.id # 0

\* no element of the tree was built and nothing is returned
NothingBuilt ==
    /\ \A i \in 1..Len(result.returned.stages) : result.returned.stages[i] \notin TreeStages
    /\ result.returned.document = NoDocument

\* the value of a 2-decimal amount text, in hundredths
DigitValue(c) == CHOOSE d \in 0..9 : DigitOf(d) = c
RECURSIVE DigitsValue(_)
DigitsValue(s) ==
    IF s = <<>> THEN 0
    ELSE DigitsValue(SubSeq(s, 1, Len(s) - 1)) * 10 + DigitValue(s[Len(s)])
AmountValue(text) ==
    DigitsValue(SubSeq(text, 1, Len(text) - 3)) * 100
        + DigitsValue(SubSeq(text, Len(text) - 1, Len(text)))
IsAmountText(text) ==
    /\ Len(text) >= 4
    /\ text[Len(text) - 2] = "."
    /\ \A i \in (1..Len(text)) \ {Len(text) - 2} : text[i] \in DigitChars

RECURSIVE SumOf(_)
SumOf(numbers) == IF numbers = <<>> THEN 0 ELSE numbers[1] + SumOf(Tail(numbers))

\* the text "1000.00"
Text1000 == <<"1", "0", "0", "0", ".", "0", "0">>

---------------------------------------------------------------------------
(* C1 *)

\* C1: in every document returned, the GrpHdr CtrlSum equals the sum of the
\* CtrlSum of the PmtInf blocks, which equals the sum of the InstdAmt of all
\* CdtTrfTxInf blocks, as 2-decimal values; batches with several execution dates
\* and batches holding the same payment record more than once included.
C1_ControlSumsAgree ==
    Produced =>
        LET doc == result.returned.document
            blockSums == [i \in 1..Len(doc.PmtInf) |-> AmountValue(doc.PmtInf[i].CtrlSum)]
            txSums == [i \in 1..Len(doc.PmtInf) |->
                        SumOf([j \in 1..Len(doc.PmtInf[i].CdtTrfTxInf) |->
                                 AmountValue(doc.PmtInf[i].CdtTrfTxInf[j].InstdAmt.text)])]
        IN  /\ IsAmountText(doc.GrpHdr.CtrlSum)
            /\ AmountValue(doc.GrpHdr.CtrlSum) = SumOf(blockSums)
            /\ SumOf(blockSums) = SumOf(txSums)

---------------------------------------------------------------------------
(* C2 *)

\* the batch of the call violates one rule only: the amount of one payment record
OnlyAmountViolated ==
    LET payments == result.payments
        nonPositive == {i \in 1..Len(payments) : payments[i].amount <= 0}
    IN  /\ Configured
        /\ nonPositive # {}
        /\ \A i, j \in nonPositive : payments[i].id = payments[j].id
        /\ \A i \in 1..Len(payments) :
              /\ payments[i].partner_id
              /\ swedbank_service_level = "SEPA" => payments[i].currency = "EUR"

\* C2: when the only rule a batch violates is one payment whose amount is <= 0,
\* the call raises an error naming that payment, before any element of the tree
\* is built, and returns no document.
C2_NonPositiveAmountRejected ==
    (Called /\ OnlyAmountViolated) =>
        /\ Rejected
        /\ result.returned.error.rule = "invalid_amount"
        /\ \E i \in 1..Len(result.payments) :
              /\ result.payments[i].amount <= 0
              /\ result.returned.error.payment = result.payments[i].name
        /\ NothingBuilt

\* a batch of valid payments and one payment of amount 0 was rejected
C2_Witness ==
    /\ Called /\ OnlyAmountViolated /\ Rejected
    /\ Len(result.payments) > 1
    /\ \E i \in 1..Len(result.payments) : result.payments[i].amount = 0
    /\ result.returned.error.payment = <<"P", "A", "Y", "3">>

---------------------------------------------------------------------------
(* C3 *)

\* C3: on a journal whose service level is SEPA, the call rejects every batch
\* holding a payment whose creditor bank account is specified and is not of type
\* IBAN, and produces no document.
C3_SepaRequiresIban ==
    (/\ Called
     /\ swedbank_service_level = "SEPA"
     /\ \E i \in 1..Len(result.payments) :
           /\ result.payments[i].partner_bank_id.id # 0
           /\ result.payments[i].partner_bank_id.acc_type # "iban")
    => (Rejected /\ NothingBuilt)

---------------------------------------------------------------------------
(* C4 *)

NonEur == {i \in 1..Len(result.payments) : result.payments[i].currency # "EUR"}

\* C4 as stated: on a configured journal whose service level is SEPA, every batch
\* holding a payment whose currency is not EUR is rejected with an error naming
\* that payment and its currency, and no document is produced.
C4_AsStated ==
    (Called /\ Configured /\ swedbank_service_level = "SEPA" /\ NonEur # {}) =>
        /\ Rejected
        /\ NothingBuilt
        /\ \E i \in NonEur :
              /\ result.returned.error.payment = result.payments[i].name
              /\ result.returned.error.currency = result.payments[i].currency

\* payment i of the batch is the first one to violate a rule, and the rule is the
\* currency rule
CurrencyIsFirstViolation(i) ==
    /\ i \in NonEur
    /\ result.payments[i].partner_id
    /\ result.payments[i].amount > 0
    /\ \A j \in 1..(i - 1) :
          /\ result.payments[j].partner_id
          /\ result.payments[j].amount > 0
          /\ result.payments[j].currency = "EUR"

\* C4 amended: on a journal whose service level is SEPA, every batch holding a
\* payment whose currency is not EUR is rejected and no document is produced; the
\* error names the payment and its currency when the journal is configured and
\* that payment's currency is the first violation in batch order.
C4_NonEurRejected ==
    (Called /\ swedbank_service_level = "SEPA" /\ NonEur # {}) =>
        /\ Rejected
        /\ NothingBuilt
        /\ \A i \in NonEur :
              (Configured /\ CurrencyIsFirstViolation(i)) =>
                  /\ result.returned.error.rule = "sepa_currency"
                  /\ result.returned.error.payment = result.payments[i].name
                  /\ result.returned.error.currency = result.payments[i].currency

\* a SEK payment following a valid EUR payment was rejected, naming it
C4_Witness ==
    /\ Called /\ Configured /\ swedbank_service_level = "SEPA"
    /\ Len(result.payments) = 2
    /\ result.payments[1].currency = "EUR"
    /\ CurrencyIsFirstViolation(2)
    /\ result.returned.error.payment = result.payments[2].name
    /\ result.returned.error.currency = "SEK"

---------------------------------------------------------------------------
(* C5 *)

---------------------------------------------------------------------------
(* C6 *)

\* C6: with no agreement ID the call fails before the payments are validated and
\* before any element of the tree is built, for every batch; likewise with an
\* agreement ID and no debtor bank account; with both missing the error is the
\* agreement ID's.
C6_ConfigurationFirst ==
    Called =>
        /\ swedbank_agreement_id = <<>> =>
              /\ Rejected
              /\ result.returned.error.rule = "no_agreement_id"
        /\ (swedbank_agreement_id # <<>> /\ bank_account_id.id = 0) =>
              /\ Rejected
              /\ result.returned.error.rule = "no_bank_account"
        /\ ~Configured =>
              /\ NothingBuilt
              /\ result.returned.examined = 0
              /\ \A i \in 1..Len(result.returned.stages) :
                    result.returned.stages[i] # "validate_payments"

\* a batch with an invalid payment, sent with neither agreement ID nor bank account
C6_Witness ==
    /\ Called
    /\ swedbank_agreement_id = <<>>
    /\ bank_account_id.id = 0
    /\ \E i \in 1..Len(result.payments) : result.payments[i].amount <= 0
    /\ result.returned.error.rule = "no_agreement_id"

---------------------------------------------------------------------------
(* C7 *)

\* the journal and the batch of the end-to-end scenario
C7_Scenario ==
    /\ Called
    /\ swedbank_agreement_id = AgreementId1
    /\ bank_account_id = CompanyBank
    /\ swedbank_service_level = "NURG"
    /\ result.payments = <<account_payment[1]>>

\* what the scenario's document holds apart from the creditor account scheme
C7_Structure ==
    C7_Scenario =>
        /\ Produced
        /\ result.returned.document.root = "Document"
        /\ result.returned.document.xmlns = "urn:iso:std:iso:20022:tech:xsd:pain.001.001.03"
        /\ Len(result.returned.document.PmtInf) = 1
        /\ Len(result.returned.document.PmtInf[1].CdtTrfTxInf) = 1
        /\ result.returned.document.PmtInf[1].CdtTrfTxInf[1].InstdAmt.text = Text1000

\* C7: agreement ID 123456789012A001, debtor IBAN SE4550000000058398257466, one
\* payment of 1000.00 to a non-IBAN account 12345678 with clearing code 9900 whose
\* type the classifier derived: the document has root Document in the pain.001.001.03
\* namespace, one PmtInf, one CdtTrfTxInf with InstdAmt 1000.00, and the creditor
\* account scheme Prtry=BGNR.
C7_EndToEnd ==
    C7_Scenario =>
        /\ Produced
        /\ result.returned.document.root = "Document"
        /\ result.returned.document.xmlns = "urn:iso:std:iso:20022:tech:xsd:pain.001.001.03"
        /\ Len(result.returned.document.PmtInf) = 1
        /\ Len(result.returned.document.PmtInf[1].CdtTrfTxInf) = 1
        /\ result.returned.document.PmtInf[1].CdtTrfTxInf[1].InstdAmt.text = Text1000
        /\ result.returned.document.PmtInf[1].CdtTrfTxInf[1].CdtrAcct.SchmeNm
              = <<"Prtry", "BGNR">>

---------------------------------------------------------------------------
(* C8 *)

\* the text is lo..hi decimal digits and nothing else
IsDigitText(s, lo, hi) == Len(s) \in lo..hi /\ \A i \in 1..Len(s) : s[i] \in DigitChars

\* the account of the state is not IBAN, has no clearing code, and its number is
\* 7 or 8 digits once spaces and dashes are removed
C8_Case ==
    /\ acc_type # "iban"
    /\ swedbank_clearing_code = <<>>
    /\ IsDigitText(SelectSeq(acc_number, LAMBDA c : c \notin {" ", "-"}), 7, 8)

---------------------------------------------------------------------------
(* C9 *)

\* the type the rule of the claim gives to the account of the state
C9_Rule ==
    LET digits == SelectSeq(acc_number, LAMBDA c : c \notin {" ", "-"}) IN
    IF acc_type = "iban" THEN "iban"
    ELSE IF swedbank_clearing_code = <<>> /\ IsDigitText(digits, 7, 8) THEN "bankgiro"
    ELSE IF swedbank_clearing_code = PlusgiroClearing /\ IsDigitText(digits, 1, 10)
        THEN "plusgiro"
    ELSE "bban"

\* C9: for every input with a non-empty account number the classifier returns the
\* type of the first matching rule: iban if declared IBAN; else bankgiro if there
\* is no clearing code and the number is 7-8 digits; else plusgiro if the clearing
\* code is 9960 and the number is at most 10 digits; else bban.
C9_FirstMatch ==
    acc_number # <<>> =>
        _compute_swedbank_account_type(acc_type, acc_number, swedbank_clearing_code)
            = C9_Rule

\* C9 on the account numbers that do not end with a newline
C9_FirstMatchNoNewline ==
    (acc_number # <<>> /\ acc_number[Len(acc_number)] # "\n") =>
        _compute_swedbank_account_type(acc_type, acc_number, swedbank_clearing_code)
            = C9_Rule

---------------------------------------------------------------------------
(* C10 *)

\* the text matches ^[0-9]{12}[A-Z][0-9]{3}$
IsAgreementId(id) ==
    /\ Len(id) = 16
    /\ \A i \in (1..12) \cup (14..16) : id[i] \in DigitChars
    /\ id[13] \in UpperChars

\* C10: a write of a non-empty agreement ID that does not match the pattern is
\* rejected with a validation error and a matching ID is accepted and stored;
\* so every document returned, after any sequence of writes and calls, carries
\* in GrpHdr/InitgPty an Id that matches the pattern, with scheme code BANK.
C10_AgreementIdWellFormed ==
    /\ result.op = "write_swedbank_agreement_id" =>
          /\ (result.value # <<>> /\ ~IsAgreementId(result.value))
                => result.outcome = "ValidationError"
          /\ IsAgreementId(result.value) =>
                (result.outcome = "ok" /\ swedbank_agreement_id = result.value)
    /\ swedbank_agreement_id # <<>> => IsAgreementId(swedbank_agreement_id)
    /\ Produced =>
          /\ IsAgreementId(result.returned.document.GrpHdr.InitgPty.Id)
          /\ result.returned.document.GrpHdr.InitgPty.Id = swedbank_agreement_id
          /\ result.returned.document.GrpHdr.InitgPty.SchmeNm.Cd = "BANK"

\* a document produced after the agreement ID was written a second time
C10_Witness ==
    /\ Produced
    /\ result.returned.document.GrpHdr.InitgPty.Id = Substitute(AgreementId1, 13, "B")
    /\ Len(result.returned.document.PmtInf) >= 1

---------------------------------------------------------------------------
(* C11 *)

\* the text holds two slashes in a row
C11_DoubleSlash(s) == \E i \in 1..(Len(s) - 1) : <<s[i], s[i + 1]>> = <<"/", "/">>

\* the allowed set: the base Latin set, and the Swedish letters with the flag
C11_Allowed(allow_swedish) ==
    IF allow_swedish THEN SWEDBANK_LATIN_CHARS \cup SWEDISH_LOCAL_CHARS
    ELSE SWEDBANK_LATIN_CHARS

\* C11: for every text, every max length >= 0 and both values of the
\* extended-letters flag, the result of _swedbank_sanitize_text holds no '//', is
\* at most max length long and is made of allowed characters only (the Swedish
\* letters only with the flag); a text of allowed characters without '//' that
\* fits the limit is returned unchanged.
C11_SanitizeText ==
    result.op = "_swedbank_sanitize_text" =>
        LET allowed == C11_Allowed(result.allow_swedish) IN
        /\ ~C11_DoubleSlash(result.returned)
        /\ Len(result.returned) <= result.max_length
        /\ \A i \in 1..Len(result.returned) : result.returned[i] \in allowed
        /\ (/\ \A i \in 1..Len(result.text) : result.text[i] \in allowed
            /\ ~C11_DoubleSlash(result.text)
            /\ Len(result.text) <= result.max_length)
           => result.returned = result.text

\* a text with three slashes in a row and a sharp s, cut to the limit
C11_Witness ==
    /\ result.op = "_swedbank_sanitize_text"
    /\ result.text = <<"/", "/", "/", "U+00DF">>
    /\ result.max_length = 2
    /\ result.returned = <<"/", "s">>

---------------------------------------------------------------------------
(* C12 *)

\* C12: for every text and max length, the result of _swedbank_sanitize_id never
\* starts or ends with '/', holds no '//', is at most max length long and is made
\* of base Latin characters only (no Swedish letter), also when the cut to max
\* length falls right after a '/'.
C12_SanitizeId ==
    result.op = "_swedbank_sanitize_id" =>
        /\ result.returned # <<>> =>
              /\ result.returned[1] # "/"
              /\ result.returned[Len(result.returned)] # "/"
        /\ \A i \in 1..(Len(result.returned) - 1) :
              ~(result.returned[i] = "/" /\ result.returned[i + 1] = "/")
        /\ Len(result.returned) <= result.max_length
        /\ \A i \in 1..Len(result.returned) :
              /\ result.returned[i] \in SWEDBANK_LATIN_CHARS
              /\ result.returned[i] \notin SWEDISH_LOCAL_CHARS

\* the cut of 'a/aa' to 2 characters falls right after the slash
C12_Witness ==
    /\ result.op = "_swedbank_sanitize_id"
    /\ result.text = <<"a", "/", "a", "a">>
    /\ result.max_length = 2
    /\ result.returned = <<"a">>

---------------------------------------------------------------------------
(* C13 *)

RECURSIVE C13_Distinct(_)
\* the elements of a sequence in the order in which each is first seen
C13_Distinct(s) ==
    IF s = <<>> THEN <<>>
    ELSE LET before == C13_Distinct(SubSeq(s, 1, Len(s) - 1)) IN
         IF \E i \in 1..Len(before) : before[i] = s[Len(s)] THEN before
         ELSE Append(before, s[Len(s)])

\* the execution date of a payment of the call
C13_Date(payment) == IF payment.date # NoDate THEN payment.date ELSE result.today

\* the (debtor account, execution date) pairs of the batch, as first seen
C13_Pairs ==
    C13_Distinct([i \in 1..Len(result.payments) |->
                    <<bank_account_id.id, C13_Date(result.payments[i])>>])

\* the payment records of one pair, as first seen
C13_Members(pair) ==
    C13_Distinct(SelectSeq(result.payments,
                           LAMBDA p : <<bank_account_id.id, C13_Date(p)>> = pair))

\* the transaction block is the one of the payment
C13_IsTxOf(tx, payment) ==
    /\ AmountValue(tx.InstdAmt.text) = payment.amount
    /\ tx.InstdAmt.Ccy = payment.currency

\* C13: every document holds exactly one PmtInf per distinct (debtor account,
\* execution date) pair of the payments, in the order in which the pairs are first
\* seen in the batch; each payment yields exactly one CdtTrfTxInf, in the block of
\* its own execution date, in batch order within the block; and each block's
\* ReqdExctnDt is its group's date.
C13_Grouping ==
    Produced =>
        LET doc == result.returned.document IN
        /\ Len(doc.PmtInf) = Len(C13_Pairs)
        /\ \A k \in 1..Len(C13_Pairs) :
              LET members == C13_Members(C13_Pairs[k]) IN
              /\ doc.PmtInf[k].ReqdExctnDt = C13_Pairs[k][2]
              /\ Len(doc.PmtInf[k].CdtTrfTxInf) = Len(members)
              /\ \A j \in 1..Len(members) :
                    C13_IsTxOf(doc.PmtInf[k].CdtTrfTxInf[j], members[j])
        /\ \A i \in 1..Len(result.payments) :
              Cardinality({<<k, j>> \in (1..Len(doc.PmtInf)) \X (1..MaxBatch + 1) :
                              /\ j <= Len(doc.PmtInf[k].CdtTrfTxInf)
                              /\ C13_IsTxOf(doc.PmtInf[k].CdtTrfTxInf[j],
                                            result.payments[i])}) = 1

\* three payments dated 2, 1 and today (2): two blocks, the first one dated 2 and
\* holding the first and the third payment
C13_Witness ==
    /\ Produced
    /\ Len(result.payments) = 3
    /\ result.payments[1].date = 2
    /\ result.payments[2].date = 1
    /\ result.payments[3].date = NoDate
    /\ result.today = 2
    /\ Len(result.returned.document.PmtInf) = 2
    /\ result.returned.document.PmtInf[1].ReqdExctnDt = 2
    /\ Len(result.returned.document.PmtInf[1].CdtTrfTxInf) = 2

---------------------------------------------------------------------------
(* C16 *)

\* the journal's defaults, as the block falls back on them
C16_JournalServiceLevel ==
    IF swedbank_service_level # "" THEN swedbank_service_level ELSE "NURG"
C16_JournalCategoryPurpose ==
    IF swedbank_category_purpose # "" THEN swedbank_category_purpose ELSE "SUPP"

\* C16: in each PmtInf block, the service level code and the category purpose
\* code are the values set on the payment when it sets them, and the journal's
\* defaults only when the payment leaves them unset.
C16_PaymentTypeFromPayment ==
    Produced =>
        \A k \in 1..Len(result.returned.document.PmtInf) :
            LET block == result.returned.document.PmtInf[k] IN
            \A i \in 1..Len(result.payments) :
                (\E j \in 1..Len(block.CdtTrfTxInf) :
                    C13_IsTxOf(block.CdtTrfTxInf[j], result.payments[i]))
                =>  /\ block.PmtTpInf.SvcLvl =
                          IF result.payments[i].swedbank_service_level # ""
                          THEN result.payments[i].swedbank_service_level
                          ELSE C16_JournalServiceLevel
                    /\ block.PmtTpInf.CtgyPurp =
                          IF result.payments[i].swedbank_category_purpose # ""
                          THEN result.payments[i].swedbank_category_purpose
                          ELSE C16_JournalCategoryPurpose

\* what holds of the code: every block carries the journal's values
C16_JournalValuesOnly ==
    Produced =>
        \A k \in 1..Len(result.returned.document.PmtInf) :
            /\ result.returned.document.PmtInf[k].PmtTpInf.SvcLvl = C16_JournalServiceLevel
            /\ result.returned.document.PmtInf[k].PmtTpInf.CtgyPurp
                  = C16_JournalCategoryPurpose

---------------------------------------------------------------------------
(* C17 *)

\* the rule the claim puts first for one payment: partner present, amount > 0,
\* SEPA currency
C17_FirstRule(payment) ==
    CASE ~payment.partner_id -> "no_partner"
      [] payment.partner_id /\ payment.amount <= 0 -> "invalid_amount"
      [] payment.partner_id /\ payment.amount > 0
         /\ swedbank_service_level = "SEPA" /\ payment.currency # "EUR" -> "sepa_currency"
      [] OTHER -> "none"

C17_Offenders == {i \in 1..Len(result.payments) : C17_FirstRule(result.payments[i]) # "none"}

\* C17: on a configured journal, when several payments of the batch violate rules,
\* the error names the first offending payment in batch order and, for it, the
\* first violated rule in the order partner present, amount > 0, SEPA currency;
\* the payments after it are not examined and no document is produced.
C17_FailFast ==
    (Called /\ Configured /\ C17_Offenders # {}) =>
        LET first == CHOOSE i \in C17_Offenders : \A j \in C17_Offenders : i <= j IN
        /\ Rejected
        /\ result.returned.error.payment = result.payments[first].name
        /\ result.returned.error.rule = C17_FirstRule(result.payments[first])
        /\ result.returned.examined = first
        /\ NothingBuilt

\* a valid payment, then a payment with a non-positive amount and a non-EUR
\* currency on a SEPA journal, then a payment without partner
C17_Witness ==
    /\ Called /\ Configured
    /\ swedbank_service_level = "SEPA"
    /\ Len(result.payments) = 3
    /\ C17_Offenders = {2, 3}
    /\ result.payments[2].amount <= 0
    /\ result.payments[2].currency # "EUR"
    /\ ~result.payments[3].partner_id
    /\ result.returned.error.rule = "invalid_amount"
    /\ result.returned.examined = 2

---------------------------------------------------------------------------
(* C20 *)

\* C20: in every document, each CdtTrfTxInf has a non-empty InstrId and a
\* non-empty EndToEndId of at most 35 characters, whatever the payment's name and
\* reference, names and references made only of '/' included.
C20_IdentifiersPresent ==
    Produced =>
        \A k \in 1..Len(result.returned.document.PmtInf) :
            \A j \in 1..Len(result.returned.document.PmtInf[k].CdtTrfTxInf) :
                LET tx == result.returned.document.PmtInf[k].CdtTrfTxInf[j] IN
                /\ tx.InstrId # <<>>
                /\ tx.EndToEndId # <<>>
                /\ Len(tx.InstrId) <= 35
                /\ Len(tx.EndToEndId) <= 35

\* what holds of the code: the identifiers are at most 35 characters long, and
\* they are present when the payment has no name and no reference
C20_IdentifiersFit ==
    Produced =>
        \A k \in 1..Len(result.returned.document.PmtInf) :
            \A j \in 1..Len(result.returned.document.PmtInf[k].CdtTrfTxInf) :
                LET tx == result.returned.document.PmtInf[k].CdtTrfTxInf[j] IN
                /\ Len(tx.InstrId) <= 35
                /\ Len(tx.EndToEndId) <= 35
                /\ \A i \in 1..Len(result.payments) :
                      (/\ C13_IsTxOf(tx, result.payments[i])
                       /\ result.payments[i].name = <<>>
                       /\ result.payments[i].ref = <<>>)
                      => (tx.InstrId # <<>> /\ tx.EndToEndId # <<>>)

---------------------------------------------------------------------------
(* C14 *)

CalledValidated == result.op = "create_swedbank_credit_transfer_validated"

\* the call generated a document and handed it to the validation
C14_Validated ==
    /\ CalledValidated
    /\ \E i \in 1..Len(result.returned.stages) :
          result.returned.stages[i] = "swedbank_validate_xml"

\* the validation of the call reported invalid (with result.report errors)
C14_ReportedInvalid == C14_Validated /\ result.xsd = "loaded" /\ result.report > 0

\* C14: create_swedbank_credit_transfer_validated returns the document only when
\* the validation reports valid; when it reports invalid with n errors the call
\* raises and returns nothing, and the error text holds exactly the first
\* min(n, 10) messages in order, followed by a count of the n - 10 omitted
\* messages if and only if n > 10.
C14_ValidatedOutcome ==
    CalledValidated =>
        /\ result.returned.outcome = "ok" =>
              (C14_Validated /\ ~C14_ReportedInvalid
               /\ result.returned.document # NoDocument)
        /\ C14_ReportedInvalid =>
              LET n == result.report
                  shown == IF n < 10 THEN n ELSE 10
                  message == result.returned.message
              IN  /\ result.returned.outcome = "UserError"
                  /\ result.returned.document = NoDocument
                  /\ Len(message) = 1 + shown + (IF n > 10 THEN 1 ELSE 0)
                  /\ \A i \in 1..shown : message[1 + i] = SchemaError(i)
                  /\ n > 10 => message[Len(message)]
                                  = [text |-> "... and %d more errors", arg |-> n - 10]

\* twelve errors: the message holds the heading, ten messages and the count 2
C14_Witness ==
    /\ C14_ReportedInvalid
    /\ result.report = 12
    /\ Len(result.returned.message) = 12
    /\ result.returned.message[11] = SchemaError(10)
    /\ result.returned.message[12].arg = 2

---------------------------------------------------------------------------
(* C15 *)

\* C15: when the schema file is missing or cannot be parsed, swedbank_validate_xml
\* returns valid with exactly one advisory message for every input, texts that
\* are not well-formed XML included, and create_swedbank_credit_transfer_validated
\* then returns the generated document without raising.
C15_SchemaUnavailable ==
    /\ (result.op = "swedbank_validate_xml" /\ result.xsd # "loaded") =>
          /\ result.returned.is_valid
          /\ result.returned.errors = <<Advisory>>
    /\ (CalledValidated /\ result.xsd # "loaded") =>
          LET generated == create_swedbank_credit_transfer(result.payments, result.today) IN
          generated.outcome = "ok" =>
              /\ result.returned.outcome = "ok"
              /\ result.returned.document = generated.document
              /\ result.returned.document # NoDocument

\* a text that is not well-formed XML, validated with a schema file that does not
\* parse
C15_Witness ==
    /\ result.op = "swedbank_validate_xml"
    /\ result.xsd = "unparsable"
    /\ ~result.xml_content.well_formed
    /\ result.returned.is_valid

\* a document returned by the validated generation with no schema file
C15_WitnessGenerated ==
    /\ CalledValidated
    /\ result.xsd = "missing"
    /\ result.returned.outcome = "ok"
    /\ Len(result.returned.document.PmtInf) = 2

---------------------------------------------------------------------------
(* C19 *)

\* C19: after any sequence of edits of a bank account's number, IBAN flag and
\* clearing code, the onchange that sets the clearing code to 9900 or 9960
\* included, the stored swedbank_account_type is what the classification yields
\* for the current number, IBAN flag and clearing code, so that the formatted
\* account and the creditor agent's clearing member come from a current type.
C19_StoredTypeCurrent ==
    LET current == _compute_swedbank_account_type(acc_type, acc_number,
                                                  swedbank_clearing_code)
    IN  /\ swedbank_account_type = current
        /\ _compute_swedbank_formatted_account(acc_number, swedbank_clearing_code,
                                               swedbank_account_type)
              = _compute_swedbank_formatted_account(acc_number, swedbank_clearing_code,
                                                    current)
        /\ _get_swedbank_creditor_agent_clearing(swedbank_account_type,
                                                 swedbank_clearing_code)
              = _get_swedbank_creditor_agent_clearing(current, swedbank_clearing_code)

\* what holds of the code: the stored type is the one computed at the last write
\* of the number or of the IBAN flag, for some clearing code
C19_StoredTypeOfSomeClearing ==
    \E clearing \in ClearingInputs :
        swedbank_account_type = _compute_swedbank_account_type(acc_type, acc_number, clearing)

---------------------------------------------------------------------------
(* C18 *)

\* the texts of the sequence differ from one another
C18_AllDifferent(ids) == \A i, j \in 1..Len(ids) : i # j => ids[i] # ids[j]

\* C18: any two PmtInf blocks ever produced, in one document or in different
\* calls, have different PmtInfId values, and any two calls that return a document,
\* calls made at the same clock reading included, have different MsgId values.
C18_IdentifiersUnique ==
    /\ C18_AllDifferent(issued.PmtInfId)
    /\ C18_AllDifferent(issued.MsgId)

\* what holds of the code: identifiers made from different clock readings differ
C18_UniquePerReading ==
    /\ \A i, j \in 1..Len(issued.MsgId) :
          issued.MsgNow[i] # issued.MsgNow[j] => issued.MsgId[i] # issued.MsgId[j]
    /\ \A i, j \in 1..Len(issued.PmtInfId) :
          issued.PmtInfNow[i] # issued.PmtInfNow[j]
              => issued.PmtInfId[i] # issued.PmtInfId[j]
    /\ \A i \in 1..Len(issued.MsgId) : Len(issued.MsgId[i]) = 26
    /\ \A i \in 1..Len(issued.PmtInfId) : Len(issued.PmtInfId[i]) = 29

====
